---------------------------- MODULE Spec2Model ----------------------------
(***************************************************************************)
(* A model of the M3U parser of src/src/lib.rs: the line normalizer, the   *)
(* per-entry extraction with its optional liveness probe, the batch join,  *)
(* and the query operations (filter_by, sort_by, reset_operations,         *)
(* get_random_stream) on the live sequence and its backup.                 *)
(*                                                                         *)
(* A Rust String is a sequence of one-character strings, so that the       *)
(* regular expressions, the URL parser, trim, split and the lexicographic  *)
(* comparison of the source are computed on characters.                    *)
(***************************************************************************)
EXTENDS Naturals, Sequences, FiniteSets, TLC

(***************************************************************************)
(* Characters                                                              *)
(***************************************************************************)

\* The characters of the model's inputs, in ascending byte order (ASCII).
AsciiOrder ==
    <<"\n", " ", "\"", "#", ",", "-", ".", "/",
      "0", "1", "2", "3", "4", "5", "6", "7", "8", "9", ":", "=",
      "A", "B", "C", "D", "E", "F", "G", "H", "I", "J", "K", "L", "M",
      "N", "O", "P", "Q", "R", "S", "T", "U", "V", "W", "X", "Y", "Z",
      "\\", "_",
      "a", "b", "c", "d", "e", "f", "g", "h", "i", "j", "k", "l", "m",
      "n", "o", "p", "q", "r", "s", "t", "u", "v", "w", "x", "y", "z">>

Chars == {AsciiOrder[i] : i \in 1..Len(AsciiOrder)}

\* The rank of a character in byte order.
Code == [c \in Chars |-> CHOOSE i \in 1..Len(AsciiOrder) : AsciiOrder[i] = c]

Digits == {"0", "1", "2", "3", "4", "5", "6", "7", "8", "9"}

UpperLetters ==
    {"A", "B", "C", "D", "E", "F", "G", "H", "I", "J", "K", "L", "M",
     "N", "O", "P", "Q", "R", "S", "T", "U", "V", "W", "X", "Y", "Z"}

LowerLetters ==
    {"a", "b", "c", "d", "e", "f", "g", "h", "i", "j", "k", "l", "m",
     "n", "o", "p", "q", "r", "s", "t", "u", "v", "w", "x", "y", "z"}

\* [a-zA-Z]
Letters == UpperLetters \cup LowerLetters

\* [a-zA-Z0-9]
AlphaNum == Letters \cup Digits

\* [\d\w]: the regex crate's \w on ASCII input
WordChars == AlphaNum \cup {"_"}

\* char::is_whitespace on the model's characters
WhiteSpace == {" ", "\n"}

Min(S) == CHOOSE x \in S : \A y \in S : x <= y

Max(S) == CHOOSE x \in S : \A y \in S : x >= y

(***************************************************************************)
(* std::str operations                                                     *)
(***************************************************************************)

\* p occurs in s at index i
IsPrefixAt(s, p, i) ==
    /\ i >= 1
    /\ i + Len(p) <= Len(s) + 1
    /\ \A j \in 1..Len(p) : s[i + j - 1] = p[j]

\* The first index >= from at which p occurs in s, 0 when there is none.
Find(s, p, from) ==
    LET at == {i \in from..(Len(s) + 1) : IsPrefixAt(s, p, i)}
    IN  IF at = {} THEN 0 ELSE Min(at)

\* str::contains
contains(s, p) == Find(s, p, 1) # 0

\* str::trim
trim(s) ==
    IF \A i \in 1..Len(s) : s[i] \in WhiteSpace THEN <<>>
    ELSE LET first == CHOOSE i \in 1..Len(s) :
                         /\ s[i] \notin WhiteSpace
                         /\ \A j \in 1..(i - 1) : s[j] \in WhiteSpace
             last  == CHOOSE i \in 1..Len(s) :
                         /\ s[i] \notin WhiteSpace
                         /\ \A j \in (i + 1)..Len(s) : s[j] \in WhiteSpace
         IN  SubSeq(s, first, last)

\* str::to_lowercase
to_lowercase(s) ==
    [i \in 1..Len(s) |->
        IF s[i] \in UpperLetters
        THEN AsciiOrder[Code[s[i]] + (Code["a"] - Code["A"])]
        ELSE s[i]]

\* str::lines: the text cut at each line feed; a final line feed ends the
\* last line and starts no empty one.
RECURSIVE str_lines(_)
str_lines(content) ==
    IF content = <<>> THEN <<>>
    ELSE LET nl == Find(content, <<"\n">>, 1)
         IN  IF nl = 0 THEN <<content>>
             ELSE <<SubSeq(content, 1, nl - 1)>>
                      \o str_lines(SubSeq(content, nl + 1, Len(content)))

\* str::split(pat) collected: for a non-empty pattern the pieces between
\* its non-overlapping occurrences, left to right; for the empty pattern
\* an empty piece, each character, and an empty piece.
RECURSIVE split(_, _)
split(s, pat) ==
    IF pat = <<>>
    THEN IF s = <<>> THEN <<<<>>, <<>>>>
         ELSE <<<<>>>> \o [i \in 1..Len(s) |-> <<s[i]>>] \o <<<<>>>>
    ELSE LET at == Find(s, pat, 1)
         IN  IF at = 0 THEN <<s>>
             ELSE <<SubSeq(s, 1, at - 1)>>
                      \o split(SubSeq(s, at + Len(pat), Len(s)), pat)

\* Ord::cmp on strings: byte-wise lexicographic
RECURSIVE cmp(_, _)
cmp(a, b) ==
    IF a = <<>> THEN (IF b = <<>> THEN "Equal" ELSE "Less")
    ELSE IF b = <<>> THEN "Greater"
    ELSE IF Code[Head(a)] < Code[Head(b)] THEN "Less"
    ELSE IF Code[Head(a)] > Code[Head(b)] THEN "Greater"
    ELSE cmp(Tail(a), Tail(b))

(***************************************************************************)
(* String literals of the source                                           *)
(***************************************************************************)

\* #EXTINF
S_EXTINF ==
    <<"#", "E", "X", "T", "I", "N", "F">>

\* acestream://
S_acestream ==
    <<"a", "c", "e", "s", "t", "r", "e", "a", "m", ":", "/", "/">>

\* tvg-name="
S_tvg_name ==
    <<"t", "v", "g", "-", "n", "a", "m", "e", "=", "\"">>

\* tvg-id="
S_tvg_id ==
    <<"t", "v", "g", "-", "i", "d", "=", "\"">>

\* tvg-logo="
S_tvg_logo ==
    <<"t", "v", "g", "-", "l", "o", "g", "o", "=", "\"">>

\* group-title="
S_group_title ==
    <<"g", "r", "o", "u", "p", "-", "t", "i", "t", "l", "e", "=", "\"">>

\* tvg-country="
S_tvg_country ==
    <<"t", "v", "g", "-", "c", "o", "u", "n", "t", "r", "y", "=", "\"">>

\* tvg-language="
S_tvg_language ==
    <<"t", "v", "g", "-", "l", "a", "n", "g", "u", "a", "g", "e", "=", "\"">>

\* tvg-url="
S_tvg_url ==
    <<"t", "v", "g", "-", "u", "r", "l", "=", "\"">>

\* GOOD
GOOD ==
    <<"G", "O", "O", "D">>

\* BAD
BAD ==
    <<"B", "A", "D">>

\* title
K_title ==
    <<"t", "i", "t", "l", "e">>

\* logo
K_logo ==
    <<"l", "o", "g", "o">>

\* url
K_url ==
    <<"u", "r", "l">>

\* category
K_category ==
    <<"c", "a", "t", "e", "g", "o", "r", "y">>

\* status
K_status ==
    <<"s", "t", "a", "t", "u", "s">>

\* tvg
K_tvg ==
    <<"t", "v", "g">>

\* country
K_country ==
    <<"c", "o", "u", "n", "t", "r", "y">>

\* language
K_language ==
    <<"l", "a", "n", "g", "u", "a", "g", "e">>

\* id
K_id ==
    <<"i", "d">>

\* name
K_name ==
    <<"n", "a", "m", "e">>

\* code
K_code ==
    <<"c", "o", "d", "e">>

\* http
S_http ==
    <<"h", "t", "t", "p">>

\* https
S_https ==
    <<"h", "t", "t", "p", "s">>

\* ws
S_ws ==
    <<"w", "s">>

\* wss
S_wss ==
    <<"w", "s", "s">>

\* ftp
S_ftp ==
    <<"f", "t", "p">>

\* file
S_file ==
    <<"f", "i", "l", "e">>

(***************************************************************************)
(* Option                                                                  *)
(***************************************************************************)

None == [some |-> FALSE, val |-> <<>>]

Some(v) == [some |-> TRUE, val |-> v]

\* Option::unwrap_or_default on Option<String>
unwrap_or_default(o) == IF o.some THEN o.val ELSE <<>>

(***************************************************************************)
(* Url::parse, as far as it decides Ok or Err                              *)
(***************************************************************************)

\* The index of the ":" that ends a scheme (a letter, then letters, digits,
\* "+", "-", "."), 0 when the input has no scheme.
scheme_end(input) ==
    LET colon == Find(input, <<":">>, 1)
    IN  IF /\ colon >= 2
           /\ input[1] \in Letters
           /\ \A i \in 2..(colon - 1) : input[i] \in AlphaNum \cup {"-", "."}
        THEN colon ELSE 0

\* The special schemes that need a host
SpecialWithHost == {S_http, S_https, S_ws, S_wss, S_ftp}

\* Code points no host may hold (those of the model's characters)
ForbiddenHost == {" ", "\n", "\"", "#", "/", ":", "\\"}

\* What follows the scheme's ":" with its leading slashes and backslashes
\* dropped
RECURSIVE skip_slashes(_)
skip_slashes(rest) ==
    IF rest # <<>> /\ Head(rest) \in {"/", "\\"} THEN skip_slashes(Tail(rest)) ELSE rest

\* The authority: up to the first "/", "\" or "#"
authority(rest) ==
    LET ends == {i \in 1..Len(rest) : rest[i] \in {"/", "\\", "#"}}
    IN  IF ends = {} THEN rest ELSE SubSeq(rest, 1, Min(ends) - 1)

\* host[:port] with a host free of forbidden code points and a numeric port
host_ok(auth, may_be_empty) ==
    LET colon == Find(auth, <<":">>, 1)
        host  == IF colon = 0 THEN auth ELSE SubSeq(auth, 1, colon - 1)
        port  == IF colon = 0 THEN <<>> ELSE SubSeq(auth, colon + 1, Len(auth))
    IN  /\ may_be_empty \/ host # <<>>
        /\ \A i \in 1..Len(host) : host[i] \notin ForbiddenHost
        /\ \A i \in 1..Len(port) : port[i] \in Digits

\* Url::parse(url).is_ok(): an absolute URL. A special scheme needs a
\* non-empty valid host; any other scheme takes "//host" or an opaque path,
\* so that "C:\dir\a.mp4" is a URL of scheme "c".
is_valid_url(url) ==
    LET colon  == scheme_end(url)
        scheme == to_lowercase(SubSeq(url, 1, colon - 1))
        rest   == SubSeq(url, colon + 1, Len(url))
    IN  /\ colon # 0
        /\ IF scheme \in SpecialWithHost
           THEN host_ok(authority(skip_slashes(rest)), FALSE)
           ELSE IF scheme = S_file THEN TRUE
           ELSE IF IsPrefixAt(rest, <<"/", "/">>, 1)
                THEN host_ok(authority(SubSeq(rest, 3, Len(rest))), TRUE)
                ELSE TRUE

(***************************************************************************)
(* The regular expressions of M3uParser::new                               *)
(***************************************************************************)

\* The last k characters of s are word characters
EndsWithWord(s, k) ==
    /\ Len(s) >= k
    /\ \A j \in (Len(s) - k + 1)..Len(s) : s[j] \in WordChars

\* file_regex.is_match:
\*   ^[a-zA-Z]:\\((?:.*?\\)*).*\.[\d\w]{3,5}$|^(/[^/]*)+/?.[\d\w]{3,5}$
file_regex_is_match(s) ==
    \/ /\ Len(s) >= 3
       /\ s[1] \in Letters /\ s[2] = ":" /\ s[3] = "\\"
       /\ \E k \in 3..5 : /\ EndsWithWord(s, k)
                          /\ Len(s) - k >= 4
                          /\ s[Len(s) - k] = "."
    \/ /\ Len(s) >= 1
       /\ s[1] = "/"
       /\ \E k \in 3..5 : /\ EndsWithWord(s, k)
                          /\ Len(s) - k >= 2
                          /\ s[Len(s) - k] # "\n"

\* streams_regex.is_match: acestream://[a-zA-Z0-9]+ anywhere in the line
streams_regex_is_match(s) ==
    \E i \in 1..Len(s) :
        /\ IsPrefixAt(s, S_acestream, i)
        /\ i + Len(S_acestream) <= Len(s)
        /\ s[i + Len(S_acestream)] \in AlphaNum

\* The attribute patterns name="(.*?)" and the title pattern ,([^",]+)$
tvg_name_regex == [kind |-> "attr", prefix |-> S_tvg_name]

tvg_id_regex == [kind |-> "attr", prefix |-> S_tvg_id]

logo_regex == [kind |-> "attr", prefix |-> S_tvg_logo]

category_regex == [kind |-> "attr", prefix |-> S_group_title]

country_regex == [kind |-> "attr", prefix |-> S_tvg_country]

language_regex == [kind |-> "attr", prefix |-> S_tvg_language]

tvg_url_regex == [kind |-> "attr", prefix |-> S_tvg_url]

title_regex == [kind |-> "title", prefix |-> <<>>]

\* Regex::captures, group 1 of the leftmost match: for name="(.*?)" the
\* text between the first name=" and the next quote; for ,([^",]+)$ the
\* text after a comma that no quote and no comma follows.
captures(regex, content) ==
    IF regex.kind = "attr"
    THEN LET at    == Find(content, regex.prefix, 1)
             start == at + Len(regex.prefix)
             close == Find(content, <<"\"">>, start)
         IN  IF at = 0 \/ close = 0 THEN None
             ELSE Some(SubSeq(content, start, close - 1))
    ELSE LET commas == {i \in 1..(Len(content) - 1) :
                          /\ content[i] = ","
                          /\ \A j \in (i + 1)..Len(content) :
                                content[j] \notin {"\"", ","}}
         IN  IF commas = {} THEN None
             ELSE Some(SubSeq(content, Min(commas) + 1, Len(content)))

\* M3uParser::get_by_regex: group 1, trimmed
get_by_regex(regex, content) ==
    LET c == captures(regex, content)
    IN  IF c.some THEN Some(trim(c.val)) ELSE None

(***************************************************************************)
(* Code tables                                                             *)
(***************************************************************************)

\* english
L_english ==
    <<"e", "n", "g", "l", "i", "s", "h">>

\* EN
L_EN ==
    <<"E", "N">>

\* nepali
L_nepali ==
    <<"n", "e", "p", "a", "l", "i">>

\* NE
L_NE ==
    <<"N", "E">>

\* hindi
L_hindi ==
    <<"h", "i", "n", "d", "i">>

\* HI
L_HI ==
    <<"H", "I">>

\* np
C_np ==
    <<"n", "p">>

\* Nepal
C_Nepal ==
    <<"N", "e", "p", "a", "l">>

\* in
C_in ==
    <<"i", "n">>

\* India
C_India ==
    <<"I", "n", "d", "i", "a">>

\* language::get_language_code: the rows of LANGUAGES_TO_CODE the inputs
\* use; the empty string for any other name.
get_language_code(language) ==
    CASE language = L_english -> L_EN
      [] language = L_nepali  -> L_NE
      [] language = L_hindi   -> L_HI
      [] OTHER                -> <<>>

\* celes::Country::from_alpha2(code) and its long_name: the rows the inputs
\* use, looked up without regard to case; None for any other code.
from_alpha2(code) ==
    LET c == to_lowercase(code)
    IN  CASE c = C_np -> Some(C_Nepal)
          [] c = C_in -> Some(C_India)
          [] OTHER    -> None

(***************************************************************************)
(* Entry extraction                                                        *)
(***************************************************************************)

\* The Info that parse_line starts from: every field empty but the status
EmptyInfo(status) ==
    [title    |-> <<>>,
     logo     |-> <<>>,
     url      |-> <<>>,
     category |-> <<>>,
     tvg      |-> [id |-> <<>>, name |-> <<>>, url |-> <<>>],
     country  |-> [code |-> <<>>, name |-> <<>>],
     language |-> [code |-> <<>>, name |-> <<>>],
     status   |-> status]

\* The scan over three lines, line_num + 1 to line_num + 3
RECURSIVE scan_links_three(_, _, _)
scan_links_three(ls, line_num, i) ==
    IF i > 3 THEN [panic |-> FALSE, link |-> None, status |-> BAD]
    ELSE IF line_num + i > Len(ls)
    THEN [panic |-> TRUE, link |-> None, status |-> BAD]
    ELSE LET line         == ls[line_num + i]
             is_acestream == streams_regex_is_match(line)
         IN  IF line # <<>> /\ (is_acestream \/ is_valid_url(line))
             THEN [panic  |-> FALSE,
                   link   |-> Some(line),
                   status |-> IF is_acestream THEN GOOD ELSE BAD]
             ELSE IF line # <<>> /\ file_regex_is_match(line)
             THEN [panic |-> FALSE, link |-> Some(line), status |-> GOOD]
             ELSE scan_links_three(ls, line_num, i + 1)

\* The scan going on after a match: the last matching line of the two
\* becomes the link
RECURSIVE scan_links_last_wins(_, _, _)
scan_links_last_wins(ls, line_num, i) ==
    IF i > 2 THEN [panic |-> FALSE, link |-> None, status |-> BAD]
    ELSE IF line_num + i > Len(ls)
    THEN [panic |-> TRUE, link |-> None, status |-> BAD]
    ELSE LET line         == ls[line_num + i]
             is_acestream == streams_regex_is_match(line)
             here ==
                 IF line # <<>> /\ (is_acestream \/ is_valid_url(line))
                 THEN [panic  |-> FALSE,
                       link   |-> Some(line),
                       status |-> IF is_acestream THEN GOOD ELSE BAD]
                 ELSE IF line # <<>> /\ file_regex_is_match(line)
                 THEN [panic |-> FALSE, link |-> Some(line), status |-> GOOD]
                 ELSE [panic |-> FALSE, link |-> None, status |-> BAD]
             later == scan_links_last_wins(ls, line_num, i + 1)
         IN  IF here.link.some /\ (later.panic \/ ~later.link.some) THEN here
             ELSE later

\* The loop of parse_line over the lines at line_num + 1 and line_num + 2
\* (line_num counts from 1 here): the first line that is an acestream link
\* or a URL, or else a file path, is the link and ends the loop. Indexing
\* self.lines past its end panics.
RECURSIVE scan_links(_, _, _)
scan_links(ls, line_num, i) ==
    IF i > 2 THEN [panic |-> FALSE, link |-> None, status |-> BAD]
    ELSE IF line_num + i > Len(ls)
    THEN [panic |-> TRUE, link |-> None, status |-> BAD]
    ELSE LET line         == ls[line_num + i]
             is_acestream == streams_regex_is_match(line)
         IN  IF line # <<>> /\ (is_acestream \/ is_valid_url(line))
             THEN [panic  |-> FALSE,
                   link   |-> Some(line),
                   status |-> IF is_acestream THEN GOOD ELSE BAD]
             ELSE IF line # <<>> /\ file_regex_is_match(line)
             THEN [panic |-> FALSE, link |-> Some(line), status |-> GOOD]
             ELSE scan_links(ls, line_num, i + 1)

\* The Info parse_line assembles from the #EXTINF line and the link
build_info(line_info, stream_link, status) ==
    LET country  == get_by_regex(country_regex, line_info)
        language == get_by_regex(language_regex, line_info)
        found    == IF country.some THEN from_alpha2(country.val) ELSE None
    IN  [title    |-> unwrap_or_default(get_by_regex(title_regex, line_info)),
         logo     |-> unwrap_or_default(get_by_regex(logo_regex, line_info)),
         url      |-> stream_link,
         category |-> unwrap_or_default(get_by_regex(category_regex, line_info)),
         tvg      |-> [id   |-> unwrap_or_default(get_by_regex(tvg_id_regex, line_info)),
                       name |-> unwrap_or_default(get_by_regex(tvg_name_regex, line_info)),
                       url  |-> unwrap_or_default(get_by_regex(tvg_url_regex, line_info))],
         country  |-> IF country.some
                      THEN [code |-> country.val, name |-> unwrap_or_default(found)]
                      ELSE EmptyInfo(status).country,
         language |-> IF language.some
                      THEN [code |-> get_language_code(to_lowercase(language.val)),
                            name |-> language.val]
                      ELSE EmptyInfo(status).language,
         status   |-> status]

\* A task of the batch: the future of one parse_line call. info is what it
\* returns (None: no record), awaiting says that it is suspended on its
\* probe's send().await, requests counts the probe requests it has sent,
\* response is what the probe ended with, finished is its place in the
\* order of completion (0 until then).
Task(line_num, panic, info, awaiting) ==
    [line_num |-> line_num,
     panic    |-> panic,
     info     |-> info,
     awaiting |-> awaiting,
     requests |-> IF awaiting THEN 1 ELSE 0,
     response |-> "none",
     finished |-> 0]

\* parse_line without the guard on the link: an entry with no link gives a
\* record as well
parse_line_unguarded(ls, line_num, live) ==
    LET line_info == ls[line_num]
        scan      == scan_links(ls, line_num, 1)
        link      == unwrap_or_default(scan.link)
    IN  IF scan.panic THEN Task(line_num, TRUE, None, FALSE)
        ELSE IF line_info # <<>>
        THEN Task(line_num, FALSE,
                  Some(build_info(line_info, link, scan.status)),
                  live /\ scan.status = BAD)
        ELSE Task(line_num, FALSE, None, FALSE)

\* parse_line probing every BAD link, check_live or not
parse_line_probing(ls, line_num, live) ==
    LET line_info == ls[line_num]
        scan      == scan_links(ls, line_num, 1)
        link      == unwrap_or_default(scan.link)
    IN  IF scan.panic THEN Task(line_num, TRUE, None, FALSE)
        ELSE IF line_info # <<>> /\ link # <<>>
        THEN Task(line_num, FALSE,
                  Some(build_info(line_info, link, scan.status)),
                  scan.status = BAD)
        ELSE Task(line_num, FALSE, None, FALSE)

\* parse_line up to its first suspension: the scan, the record, and the
\* probe request when check_live is set and the status is BAD.
parse_line(ls, line_num, live) ==
    LET line_info == ls[line_num]
        scan      == scan_links(ls, line_num, 1)
        link      == unwrap_or_default(scan.link)
    IN  IF scan.panic THEN Task(line_num, TRUE, None, FALSE)
        ELSE IF line_info # <<>> /\ link # <<>>
        THEN Task(line_num, FALSE,
                  Some(build_info(line_info, link, scan.status)),
                  live /\ scan.status = BAD)
        ELSE Task(line_num, FALSE, None, FALSE)

\* What a probe can end with: Ok with a success status, Ok with another
\* status, Err for a transport error, Err for the client's timeout.
Responses == {"success", "non_success", "error", "timeout"}

\* The rest of parse_line with one more try: after a first probe that did
\* not succeed the request is sent again
probe_done_retrying(task, response) ==
    IF response # "success" /\ task.requests < 2
    THEN [task EXCEPT !.requests = @ + 1, !.response = response]
    ELSE [task EXCEPT
             !.awaiting = FALSE,
             !.response = response,
             !.info = IF response = "success"
                      THEN Some([task.info.val EXCEPT !.status = GOOD])
                      ELSE task.info]

\* The rest of parse_line with the probe's error passed on: a probe that
\* ends in Err makes parse_line return None
probe_done_failing(task, response) ==
    [task EXCEPT
        !.awaiting = FALSE,
        !.response = response,
        !.info = IF response = "success"
                 THEN Some([task.info.val EXCEPT !.status = GOOD])
                 ELSE IF response \in {"error", "timeout"} THEN None
                 ELSE task.info]

\* The rest of parse_line once send().await returns
probe_done(task, response) ==
    [task EXCEPT
        !.awaiting = FALSE,
        !.response = response,
        !.info = IF response = "success"
                 THEN Some([task.info.val EXCEPT !.status = GOOD])
                 ELSE task.info]

(***************************************************************************)
(* Line normalizer and batch                                               *)
(***************************************************************************)

\* parse_m3u's normalisation: the non-blank lines of the content, trimmed
normalize(content) ==
    LET raw     == str_lines(content)
        NonBlank(line) == trim(line) # <<>>
        kept    == SelectSeq(raw, NonBlank)
    IN  [i \in 1..Len(kept) |-> trim(kept[i])]

\* The indexes of the lines that contain #EXTINF, ascending
RECURSIVE extinf_lines(_, _)
extinf_lines(ls, from) ==
    IF from > Len(ls) THEN <<>>
    ELSE (IF contains(ls[from], S_EXTINF) THEN <<from>> ELSE <<>>)
             \o extinf_lines(ls, from + 1)

\* Number the tasks that have returned and are not numbered yet, in task
\* order, after the numbers already given.
stamp(ts) ==
    LET given == Cardinality({k \in 1..Len(ts) : ts[k].finished # 0})
        fresh(k) == ~ts[k].awaiting /\ ts[k].finished = 0
        rank(k) == Cardinality({j \in 1..k : fresh(j)})
    IN  [k \in 1..Len(ts) |->
            IF fresh(k) THEN [ts[k] EXCEPT !.finished = given + rank(k)] ELSE ts[k]]

\* join_all polls the futures in submission order: each parse_line runs
\* until it returns, panics or suspends on its probe.
first_poll(ls, live) ==
    LET nums == extinf_lines(ls, 1)
    IN  stamp([k \in 1..Len(nums) |-> parse_line(ls, nums[k], live)])

\* The results in the order the tasks finished in, the None results
\* dropped: what a join that collects results as they arrive would give
results_as_finished(ts) ==
    LET by_finish == [i \in 1..Len(ts) |->
                         ts[CHOOSE k \in 1..Len(ts) : ts[k].finished = i]]
        gave(task) == task.info.some
        some      == SelectSeq(by_finish, gave)
    IN  [i \in 1..Len(some) |-> some[i].info.val]

\* The results of join_all in submission order, the None results dropped
RECURSIVE results(_)
results(ts) ==
    IF ts = <<>> THEN <<>>
    ELSE (IF Head(ts).info.some THEN <<Head(ts).info.val>> ELSE <<>>)
             \o results(Tail(ts))

(***************************************************************************)
(* Inputs                                                                  *)
(***************************************************************************)

\* The runs of parse_lines on one parser
MaxParses == 2

\*   | #EXTM3U
\*   | 
\*   | #EXTINF:-1 tvg-id="a1" tvg-country="NP" tvg-language="English" group-title="News",BBC
\*   | http://a.io/1
\*   | #EXTINF:-1 tvg-country="IN" tvg-language="Nepali" group-title="News",CNN
\*   |   acestream://ab12
\*   | #EXTINF:-1 group-title="Kids",ABC
\*   | #EXTGRP
\*   | http://b.io/2
\* Three entries behind a header and a blank line: a generic URL, an acestream
\* link (indented), and a generic URL behind a line that is no reference; two
\* entries share a group-title; country and language differ.
PlaylistNews ==
    <<"#", "E", "X", "T", "M", "3", "U", "\n", "\n", "#", "E", "X", "T", "I", "N", "F", ":",
    "-", "1", " ", "t", "v", "g", "-", "i", "d", "=", "\"", "a", "1", "\"", " ", "t", "v", "g",
    "-", "c", "o", "u", "n", "t", "r", "y", "=", "\"", "N", "P", "\"", " ", "t", "v", "g", "-",
    "l", "a", "n", "g", "u", "a", "g", "e", "=", "\"", "E", "n", "g", "l", "i", "s", "h", "\"",
    " ", "g", "r", "o", "u", "p", "-", "t", "i", "t", "l", "e", "=", "\"", "N", "e", "w", "s",
    "\"", ",", "B", "B", "C", "\n", "h", "t", "t", "p", ":", "/", "/", "a", ".", "i", "o", "/",
    "1", "\n", "#", "E", "X", "T", "I", "N", "F", ":", "-", "1", " ", "t", "v", "g", "-", "c",
    "o", "u", "n", "t", "r", "y", "=", "\"", "I", "N", "\"", " ", "t", "v", "g", "-", "l", "a",
    "n", "g", "u", "a", "g", "e", "=", "\"", "N", "e", "p", "a", "l", "i", "\"", " ", "g", "r",
    "o", "u", "p", "-", "t", "i", "t", "l", "e", "=", "\"", "N", "e", "w", "s", "\"", ",", "C",
    "N", "N", "\n", " ", " ", "a", "c", "e", "s", "t", "r", "e", "a", "m", ":", "/", "/", "a",
    "b", "1", "2", "\n", "#", "E", "X", "T", "I", "N", "F", ":", "-", "1", " ", "g", "r", "o",
    "u", "p", "-", "t", "i", "t", "l", "e", "=", "\"", "K", "i", "d", "s", "\"", ",", "A", "B",
    "C", "\n", "#", "E", "X", "T", "G", "R", "P", "\n", "h", "t", "t", "p", ":", "/", "/", "b",
    ".", "i", "o", "/", "2", "\n">>

\*   | #EXTINF:-1,N
\*   | #a
\*   | #b
\*   | #EXTINF:-1,X
\*   | #EXTINF:-1,Y
\*   | acestream://cd34
\* An entry with no reference in its two next lines, then two consecutive
\* #EXTINF lines before one acestream link.
PlaylistDup ==
    <<"#", "E", "X", "T", "I", "N", "F", ":", "-", "1", ",", "N", "\n", "#", "a", "\n", "#",
    "b", "\n", "#", "E", "X", "T", "I", "N", "F", ":", "-", "1", ",", "X", "\n", "#", "E", "X",
    "T", "I", "N", "F", ":", "-", "1", ",", "Y", "\n", "a", "c", "e", "s", "t", "r", "e", "a",
    "m", ":", "/", "/", "c", "d", "3", "4">>

\*   | #EXTINF:-1,A
\*   | http://a.io/1
\*   | #EXTINF:-1,Z
\* An #EXTINF line as the last line of the document.
PlaylistLast ==
    <<"#", "E", "X", "T", "I", "N", "F", ":", "-", "1", ",", "A", "\n", "h", "t", "t", "p",
    ":", "/", "/", "a", ".", "i", "o", "/", "1", "\n", "#", "E", "X", "T", "I", "N", "F", ":",
    "-", "1", ",", "Z", "\n">>

\*   | #EXTINF:-1,A
\*   | http://a.io/1
\*   | #EXTINF:-1,Z
\*   | #EXTVLCOPT
\* An #EXTINF line as the second-to-last line, before a line that is no reference.
PlaylistPenultimate ==
    <<"#", "E", "X", "T", "I", "N", "F", ":", "-", "1", ",", "A", "\n", "h", "t", "t", "p",
    ":", "/", "/", "a", ".", "i", "o", "/", "1", "\n", "#", "E", "X", "T", "I", "N", "F", ":",
    "-", "1", ",", "Z", "\n", "#", "E", "X", "T", "V", "L", "C", "O", "P", "T", "\n">>

\* Only blank lines.
PlaylistBlank ==
    <<"\n", " ", " ", "\n">>

\* http://p.io/l.m3u
PathUrl ==
    <<"h", "t", "t", "p", ":", "/", "/", "p", ".", "i", "o", "/", "l", ".", "m", "3", "u">>

\* l.m3u
PathFile ==
    <<"l", ".", "m", "3", "u">>

Playlists == {PlaylistNews, PlaylistDup, PlaylistLast, PlaylistPenultimate, PlaylistBlank}

\* The path arguments: one that Url::parse accepts, one it does not
Paths == {PathUrl, PathFile}

\* What reading the path gives: an error, or the text of a playlist
Reads == {[ok |-> FALSE, content |-> <<>>]}
             \cup {[ok |-> TRUE, content |-> p] : p \in Playlists}

\* #EXTINF:-1 tvg-id="e1",E
Line_extinf ==
    <<"#", "E", "X", "T", "I", "N", "F", ":", "-", "1", " ", "t", "v", "g", "-", "i", "d", "=",
    "\"", "e", "1", "\"", ",", "E">>

\* acestream://ab12
Line_acestream ==
    <<"a", "c", "e", "s", "t", "r", "e", "a", "m", ":", "/", "/", "a", "b", "1", "2">>

\* http://a.io/1
Line_url ==
    <<"h", "t", "t", "p", ":", "/", "/", "a", ".", "i", "o", "/", "1">>

\* /v/a.mp4
Line_posix ==
    <<"/", "v", "/", "a", ".", "m", "p", "4">>

\* C:\v\a.mp4
Line_windows ==
    <<"C", ":", "\\", "v", "\\", "a", ".", "m", "p", "4">>

\* #EXTGRP
Line_other ==
    <<"#", "E", "X", "T", "G", "R", "P">>

\*   | #EXTINF:-1,A
\*   | http://a.io/#EXTINF
\*   | #EXTINF:-1,B
\*   | http://b.io/2
\* A URL whose fragment is #EXTINF, between two entries.
PlaylistFragment ==
    <<"#", "E", "X", "T", "I", "N", "F", ":", "-", "1", ",", "A", "\n", "h", "t", "t", "p",
    ":", "/", "/", "a", ".", "i", "o", "/", "#", "E", "X", "T", "I", "N", "F", "\n", "#", "E",
    "X", "T", "I", "N", "F", ":", "-", "1", ",", "B", "\n", "h", "t", "t", "p", ":", "/", "/",
    "b", ".", "i", "o", "/", "2">>

\*   | #EXTINF:-1,W
\*   | #EXTINF:-1,X
\*   | #EXTINF:-1,Y
\*   | acestream://cd34
\* Three consecutive #EXTINF lines before one acestream link.
PlaylistTriple ==
    <<"#", "E", "X", "T", "I", "N", "F", ":", "-", "1", ",", "W", "\n", "#", "E", "X", "T",
    "I", "N", "F", ":", "-", "1", ",", "X", "\n", "#", "E", "X", "T", "I", "N", "F", ":", "-",
    "1", ",", "Y", "\n", "a", "c", "e", "s", "t", "r", "e", "a", "m", ":", "/", "/", "c", "d",
    "3", "4">>

\* The lines an entry is followed by: an acestream link, a URL, a POSIX
\* path, a Windows path, a line that is no reference
EntryLines == {Line_acestream, Line_url, Line_posix, Line_windows, Line_other}

\* The documents of one entry: the #EXTINF line, a next line, and a second
\* next line or the end of the document
EntryDocs ==
    {Line_extinf \o <<"\n">> \o l1 : l1 \in EntryLines}
        \cup {Line_extinf \o <<"\n">> \o l1 \o <<"\n">> \o l2 :
                 l1 \in EntryLines, l2 \in EntryLines}

\* Every document a parse is given
Documents == Playlists \cup EntryDocs \cup {PlaylistFragment, PlaylistTriple}

\* What reading a file of Documents gives
DocumentReads == {[ok |-> TRUE, content |-> p] : p \in Documents}

\* is_valid_url on the paths, computed once
IsUrl == [p \in Paths |-> is_valid_url(p)]

\* normalize and first_poll on the documents, computed once
Normalized == [p \in Documents |-> normalize(p)]

Polled == [p \in Documents, live \in BOOLEAN |-> first_poll(Normalized[p], live)]

(***************************************************************************)
(* State                                                                   *)
(***************************************************************************)

VARIABLES
    streams_info,          \* M3uParser.streams_info
    streams_info_backup,   \* M3uParser.streams_info_backup
    lines,                 \* M3uParser.lines
    check_live,            \* M3uParser.check_live
    tasks,                 \* the futures of parse_lines while join_all waits
    pc,                    \* "idle", "fetching" (inside read_url), "probing"
                           \* (inside join_all), "panicked"
    parses,                \* the runs of parse_lines so far
    last_call              \* the last call on the parser, and what it returned

vars == <<streams_info, streams_info_backup, lines, check_live, tasks, pc,
          parses, last_call>>

\* M3uParser::new
Init ==
    /\ streams_info = <<>>
    /\ streams_info_backup = <<>>
    /\ lines = <<>>
    /\ check_live = FALSE
    /\ tasks = <<>>
    /\ pc = "idle"
    /\ parses = 0
    /\ last_call = [op |-> "new"]

(***************************************************************************)
(* parse_m3u                                                               *)
(***************************************************************************)

\* The record of a parse_m3u call: outcome is "fetching" (read_url waits),
\* "fetch_error", "read_error", "no_content", "pending" (join_all waits),
\* "panic" or "extracted"; batch
\* holds the tasks of the batch once it has ended.
ParseCall(live, outcome, batch) ==
    [op |-> "parse_m3u", check_live |-> live, outcome |-> outcome, batch |-> batch]

\* The end of parse_lines once join_all has every result: each Some result
\* is pushed on streams_info and on streams_info_backup, in task order.
join_all_done(ts) ==
    /\ streams_info' = streams_info \o results(ts)
    /\ streams_info_backup' = streams_info_backup \o results(ts)
    /\ tasks' = <<>>
    /\ pc' = "idle"
    /\ last_call' = ParseCall(check_live, "extracted", ts)

\* parse_lines up to join_all's first poll: streams_info is cleared, one
\* future per #EXTINF line is made and polled. A panic of a parse_line
\* unwinds parse_m3u; with no future suspended the batch ends at once.
parse_lines(content, live) ==
    LET ts == Polled[content, live]
    IN  IF \E k \in 1..Len(ts) : ts[k].panic
        THEN /\ streams_info' = <<>>
             /\ tasks' = <<>>
             /\ pc' = "panicked"
             /\ last_call' = ParseCall(live, "panic", ts)
             /\ UNCHANGED streams_info_backup
        ELSE IF \E k \in 1..Len(ts) : ts[k].awaiting
        THEN /\ streams_info' = <<>>
             /\ tasks' = ts
             /\ pc' = "probing"
             /\ last_call' = ParseCall(live, "pending", <<>>)
             /\ UNCHANGED streams_info_backup
        ELSE /\ streams_info' = results(ts)
             /\ streams_info_backup' = streams_info_backup \o results(ts)
             /\ tasks' = <<>>
             /\ pc' = "idle"
             /\ last_call' = ParseCall(live, "extracted", ts)

\* parse_content clearing streams_info before it looks at what was read
parse_content_clearing(path, live, read) ==
    IF ~read.ok
    THEN /\ last_call' = ParseCall(live,
                             IF IsUrl[path] THEN "fetch_error" ELSE "read_error",
                             <<>>)
         /\ pc' = "idle"
         /\ streams_info' = <<>>
         /\ UNCHANGED <<streams_info_backup, lines, tasks, parses>>
    ELSE LET ls == Normalized[read.content]
         IN  /\ lines' = ls
             /\ IF ls # <<>>
                THEN /\ parses < MaxParses
                     /\ parses' = parses + 1
                     /\ parse_lines(read.content, live)
                ELSE /\ last_call' = ParseCall(live, "no_content", <<>>)
                     /\ pc' = "idle"
                     /\ streams_info' = <<>>
                     /\ UNCHANGED <<streams_info_backup, tasks, parses>>

\* parse_m3u from the point where the content is read: read is what
\* read_url or read_to_string returned.
parse_content(path, live, read) ==
    IF ~read.ok
    THEN /\ last_call' = ParseCall(live,
                             IF IsUrl[path] THEN "fetch_error" ELSE "read_error",
                             <<>>)
         /\ pc' = "idle"
         /\ UNCHANGED <<streams_info, streams_info_backup, lines, tasks, parses>>
    ELSE LET ls == Normalized[read.content]
         IN  /\ lines' = ls
             /\ IF ls # <<>>
                THEN /\ parses < MaxParses
                     /\ parses' = parses + 1
                     /\ parse_lines(read.content, live)
                ELSE /\ last_call' = ParseCall(live, "no_content", <<>>)
                     /\ pc' = "idle"
                     /\ UNCHANGED <<streams_info, streams_info_backup, tasks, parses>>

\* parse_m3u(path, check_live, enforce_schema) with the read taken as one
\* step; read is what read_url or read_to_string returns. enforce_schema
\* is stored and never read.
parse_m3u(path, live, read) ==
    /\ pc = "idle"
    /\ check_live' = live
    /\ parse_content(path, live, read)

\* parse_m3u on a URL up to read_url's send().await: the request for the
\* playlist is sent with a Client::new(), which has no timeout. server
\* says whether the server ever answers it ("answers" or "silent").
fetch_start(path, live, server) ==
    /\ pc = "idle"
    /\ IsUrl[path]
    /\ check_live' = live
    /\ pc' = "fetching"
    /\ last_call' = [op |-> "parse_m3u", check_live |-> live, outcome |-> "fetching",
                     batch |-> <<>>, server |-> server]
    /\ UNCHANGED <<streams_info, streams_info_backup, lines, tasks, parses>>

\* read_url returns, with the content or an error, and parse_m3u goes on
fetch_response(path, read) ==
    /\ pc = "fetching"
    /\ last_call.server = "answers"
    /\ UNCHANGED check_live
    /\ parse_content(path, check_live, read)

\* A probe's send().await returns in task k: any suspended task, in any
\* order. The last one to return ends join_all.
probe_response(k, response) ==
    /\ pc = "probing"
    /\ k \in 1..Len(tasks)
    /\ tasks[k].awaiting
    /\ LET ts == stamp([tasks EXCEPT ![k] = probe_done(@, response)])
       IN  IF \E j \in 1..Len(ts) : ts[j].awaiting
           THEN /\ tasks' = ts
                /\ UNCHANGED <<streams_info, streams_info_backup, pc, last_call>>
           ELSE join_all_done(ts)
    /\ UNCHANGED <<lines, check_live, parses>>

(***************************************************************************)
(* Query operations                                                        *)
(***************************************************************************)

\* The closed match of get_key_value on (key_0, key_1)
get_key_value(stream_info, key_0, key_1) ==
    CASE key_0 = K_title    -> stream_info.title
      [] key_0 = K_logo     -> stream_info.logo
      [] key_0 = K_url      -> stream_info.url
      [] key_0 = K_category -> stream_info.category
      [] key_0 = K_status   -> stream_info.status
      [] key_0 = K_tvg      -> (CASE key_1 = K_id   -> stream_info.tvg.id
                                  [] key_1 = K_name -> stream_info.tvg.name
                                  [] key_1 = K_url  -> stream_info.tvg.url
                                  [] OTHER          -> <<>>)
      [] key_0 = K_country  -> (CASE key_1 = K_code -> stream_info.country.code
                                  [] key_1 = K_name -> stream_info.country.name
                                  [] OTHER          -> <<>>)
      [] key_0 = K_language -> (CASE key_1 = K_code -> stream_info.country.code
                                  [] key_1 = K_name -> stream_info.country.name
                                  [] OTHER          -> <<>>)
      [] OTHER              -> <<>>

valid_keys_0 ==
    {K_title, K_logo, K_url, K_category, K_tvg, K_country, K_language, K_status}

valid_keys_1 == {<<>>, K_id, K_name, K_url, K_code}

\* resolve_key without the check of the subfield
resolve_key_unchecked(key, key_splitter, nested_key) ==
    LET parts == IF nested_key THEN split(key, key_splitter) ELSE <<key, <<>>>>
    IN  IF Len(parts) # 2 THEN [ok |-> FALSE, key_0 |-> <<>>, key_1 |-> <<>>]
        ELSE [ok    |-> parts[1] \in valid_keys_0,
              key_0 |-> parts[1],
              key_1 |-> parts[2]]

\* The head of filter_by and sort_by: (key_0, key_1) from the key, and
\* whether the call goes on past the checks of both key sets.
resolve_key(key, key_splitter, nested_key) ==
    LET parts == IF nested_key THEN split(key, key_splitter) ELSE <<key, <<>>>>
    IN  IF Len(parts) # 2 THEN [ok |-> FALSE, key_0 |-> <<>>, key_1 |-> <<>>]
        ELSE [ok    |-> parts[1] \in valid_keys_0 /\ parts[2] \in valid_keys_1,
              key_0 |-> parts[1],
              key_1 |-> parts[2]]

\* Regex::is_match for a pattern of literal characters: the pattern occurs
\* in the text.
regex_is_match(filter, text) == contains(text, filter)

\* The closure filter_by keeps a record by: any pattern matches its key
\* value (retrieve), or no pattern does.
keeps(stream_info, key_0, key_1, filters, retrieve) ==
    LET value == get_key_value(stream_info, key_0, key_1)
    IN  IF retrieve
        THEN \E f \in 1..Len(filters) : regex_is_match(filters[f], value)
        ELSE \A f \in 1..Len(filters) : ~regex_is_match(filters[f], value)

\* iter().filter(..).cloned().collect() of filter_by
filtered(infos, key_0, key_1, filters, retrieve) ==
    LET Keep(stream_info) == keeps(stream_info, key_0, key_1, filters, retrieve)
    IN  SelectSeq(infos, Keep)

\* The comparator of sort_by
compare(a, b, key_0, key_1, asc) ==
    LET a_value == get_key_value(a, key_0, key_1)
        b_value == get_key_value(b, key_0, key_1)
    IN  IF asc THEN cmp(a_value, b_value) ELSE cmp(b_value, a_value)

\* slice::sort_by, a stable sort: each element goes behind every earlier
\* element that does not compare Greater than it.
RECURSIVE sorted(_, _, _, _)
sorted(infos, key_0, key_1, asc) ==
    IF Len(infos) <= 1 THEN infos
    ELSE LET front == sorted(SubSeq(infos, 1, Len(infos) - 1), key_0, key_1, asc)
             x     == infos[Len(infos)]
             n     == Cardinality({i \in 1..Len(front) :
                                     compare(front[i], x, key_0, key_1, asc) # "Greater"})
         IN  SubSeq(front, 1, n) \o <<x>> \o SubSeq(front, n + 1, Len(front))

\* M3uParser::filter_by
filter_by(key, filters, key_splitter, retrieve, nested_key) ==
    /\ pc = "idle"
    /\ LET k == resolve_key(key, key_splitter, nested_key)
       IN  streams_info' =
               IF ~k.ok \/ filters = <<>> THEN streams_info
               ELSE filtered(streams_info, k.key_0, k.key_1, filters, retrieve)
    /\ last_call' = [op |-> "filter_by", key |-> key, filters |-> filters,
                     key_splitter |-> key_splitter, retrieve |-> retrieve,
                     nested_key |-> nested_key]
    /\ UNCHANGED <<streams_info_backup, lines, check_live, tasks, pc, parses>>

\* M3uParser::sort_by
sort_by(key, key_splitter, asc, nested_key) ==
    /\ pc = "idle"
    /\ LET k == resolve_key(key, key_splitter, nested_key)
       IN  streams_info' =
               IF ~k.ok THEN streams_info
               ELSE sorted(streams_info, k.key_0, k.key_1, asc)
    /\ last_call' = [op |-> "sort_by", key |-> key, key_splitter |-> key_splitter,
                     asc |-> asc, nested_key |-> nested_key]
    /\ UNCHANGED <<streams_info_backup, lines, check_live, tasks, pc, parses>>

\* The rearrangements of a sequence: what slice::shuffle can leave
Shuffles(s) ==
    {[i \in 1..Len(s) |-> s[p[i]]] :
        p \in {q \in [1..Len(s) -> 1..Len(s)] :
                  \A i, j \in 1..Len(s) : q[i] = q[j] => i = j}}

\* get_random_stream without its check of an empty streams_info:
\* choose(..).unwrap() panics on the empty slice
get_random_stream_unchecked(random_shuffle, shuffled, pick) ==
    /\ pc = "idle"
    /\ IF streams_info = <<>>
       THEN /\ streams_info' = streams_info
            /\ pc' = "panicked"
            /\ last_call' = [op |-> "get_random_stream",
                             random_shuffle |-> random_shuffle, ret |-> None]
       ELSE /\ streams_info' = IF random_shuffle THEN shuffled ELSE streams_info
            /\ pc' = pc
            /\ last_call' = [op |-> "get_random_stream",
                             random_shuffle |-> random_shuffle,
                             ret |-> Some(streams_info'[pick])]
    /\ UNCHANGED <<streams_info_backup, lines, check_live, tasks, parses>>

\* M3uParser::get_random_stream: shuffled is what shuffle leaves and pick
\* the index choose draws; both are the generator's choice.
get_random_stream(random_shuffle, shuffled, pick) ==
    /\ pc = "idle"
    /\ IF streams_info = <<>>
       THEN /\ streams_info' = streams_info
            /\ last_call' = [op |-> "get_random_stream",
                             random_shuffle |-> random_shuffle, ret |-> None]
       ELSE /\ streams_info' = IF random_shuffle THEN shuffled ELSE streams_info
            /\ last_call' = [op |-> "get_random_stream",
                             random_shuffle |-> random_shuffle,
                             ret |-> Some(streams_info'[pick])]
    /\ UNCHANGED <<streams_info_backup, lines, check_live, tasks, pc, parses>>

\* M3uParser::reset_operations
reset_operations ==
    /\ pc = "idle"
    /\ streams_info' = streams_info_backup
    /\ last_call' = [op |-> "reset_operations"]
    /\ UNCHANGED <<streams_info_backup, lines, check_live, tasks, pc, parses>>

(***************************************************************************)
(* Playlist writer                                                         *)
(***************************************************************************)

\* #EXTM3U
S_EXTM3U ==
    <<"#", "E", "X", "T", "M", "3", "U">>

\* #EXTINF:-1
S_EXTINF_1 ==
    <<"#", "E", "X", "T", "I", "N", "F", ":", "-", "1">>

\* m3u
S_m3u ==
    <<"m", "3", "u">>

\* .
S_dot ==
    <<".">>

\* out
FileOut ==
    <<"o", "u", "t">>

\* out.m3u
FileOutM3u ==
    <<"o", "u", "t", ".", "m", "3", "u">>

\* The append_attribute macro: _name="value" (attr is name=") when the
\* value is not empty
append_attribute(attr, value) ==
    IF value # <<>> THEN <<" ">> \o attr \o value \o <<"\"">> ELSE <<>>

\* The text get_m3u_content gives for one record: the #EXTINF line and the
\* url on the next line
m3u_entry(stream_info) ==
    S_EXTINF_1
        \o append_attribute(S_tvg_id, stream_info.tvg.id)
        \o append_attribute(S_tvg_name, stream_info.tvg.name)
        \o append_attribute(S_tvg_url, stream_info.tvg.url)
        \o append_attribute(S_tvg_logo, stream_info.logo)
        \o append_attribute(S_tvg_country, stream_info.country.code)
        \o append_attribute(S_tvg_language, stream_info.language.name)
        \o append_attribute(S_group_title, stream_info.category)
        \o (IF stream_info.title # <<>> THEN <<",">> \o stream_info.title ELSE <<>>)
        \o <<"\n">> \o stream_info.url

\* [..].join("\n")
RECURSIVE join(_, _)
join(parts, sep) ==
    IF parts = <<>> THEN <<>>
    ELSE IF Len(parts) = 1 THEN parts[1]
    ELSE parts[1] \o sep \o join(Tail(parts), sep)

\* M3uParser::get_m3u_content
get_m3u_content(infos) ==
    IF infos = <<>> THEN <<>>
    ELSE join(<<S_EXTM3U, join([i \in 1..Len(infos) |-> m3u_entry(infos[i])], <<"\n">>)>>,
              <<"\n">>)

\* str::ends_with
ends_with(s, suffix) ==
    Len(s) >= Len(suffix) /\ SubSeq(s, Len(s) - Len(suffix) + 1, Len(s)) = suffix

\* M3uParser::to_file for a call that resolves to the format m3u: the file
\* name it writes and the text it saves (None: nothing is saved).
to_file(filename, format) ==
    LET fmt  == IF contains(filename, S_dot)
                THEN split(filename, S_dot)[Len(split(filename, S_dot))]
                ELSE format
        name == IF ends_with(to_lowercase(filename), fmt) THEN filename
                ELSE filename \o S_dot \o fmt
    IN  /\ pc = "idle"
        /\ fmt = S_m3u
        /\ last_call' = [op |-> "to_file", filename |-> name,
                         saved |-> IF streams_info = <<>> THEN None
                                   ELSE Some(get_m3u_content(streams_info))]
        /\ UNCHANGED <<streams_info, streams_info_backup, lines, check_live, tasks,
                       pc, parses>>

(***************************************************************************)
(* Callers                                                                 *)
(***************************************************************************)

\* The longest sequence get_random_stream is asked to shuffle
MaxShuffle == 2

\* tvg-id
Key_tvg_id ==
    <<"t", "v", "g", "-", "i", "d">>

\* country-code
Key_country_code ==
    <<"c", "o", "u", "n", "t", "r", "y", "-", "c", "o", "d", "e">>

\* language-code
Key_language_code ==
    <<"l", "a", "n", "g", "u", "a", "g", "e", "-", "c", "o", "d", "e">>

\* language-name
Key_language_name ==
    <<"l", "a", "n", "g", "u", "a", "g", "e", "-", "n", "a", "m", "e">>

\* tvg-code
Key_tvg_code ==
    <<"t", "v", "g", "-", "c", "o", "d", "e">>

\* country-id
Key_country_id ==
    <<"c", "o", "u", "n", "t", "r", "y", "-", "i", "d">>

\* title-id
Key_title_id ==
    <<"t", "i", "t", "l", "e", "-", "i", "d">>

\* tvg-foo
Key_tvg_foo ==
    <<"t", "v", "g", "-", "f", "o", "o">>

\* tvg-id-x
Key_tvg_id_x ==
    <<"t", "v", "g", "-", "i", "d", "-", "x">>

\* BBC
F_BBC ==
    <<"B", "B", "C">>

\* Kids
F_Kids ==
    <<"K", "i", "d", "s">>

\* NE
F_NE ==
    <<"N", "E">>

\* -
Dash ==
    <<"-">>

KeyArg(key, key_splitter, nested_key) ==
    [key |-> key, key_splitter |-> key_splitter, nested_key |-> nested_key]

\* Keys that name a field: plain, and nested with "-" as the splitter
FieldKeys ==
    {KeyArg(K_title, Dash, FALSE), KeyArg(K_category, Dash, FALSE),
     KeyArg(K_status, Dash, FALSE),
     KeyArg(Key_tvg_id, Dash, TRUE), KeyArg(Key_country_code, Dash, TRUE),
     KeyArg(Key_language_code, Dash, TRUE), KeyArg(Key_language_name, Dash, TRUE)}

\* Keys whose two parts are each in their set but name no field together
MismatchedKeys ==
    {KeyArg(K_tvg, Dash, FALSE), KeyArg(Key_tvg_code, Dash, TRUE),
     KeyArg(Key_country_id, Dash, TRUE), KeyArg(Key_title_id, Dash, TRUE)}

\* Keys that either check of filter_by and sort_by refuses: a top-level
\* key or a subfield outside its set, and nested keys that do not split
\* in two.
RefusedKeys ==
    {KeyArg(K_name, Dash, FALSE), KeyArg(Key_tvg_foo, Dash, TRUE),
     KeyArg(Key_tvg_id_x, Dash, TRUE), KeyArg(K_title, Dash, TRUE),
     KeyArg(Key_tvg_id, <<>>, TRUE)}

QueryKeys == FieldKeys \cup MismatchedKeys \cup RefusedKeys

QueryFilters == {<<>>, <<F_BBC, F_Kids>>, <<F_NE>>}

\* The few query calls of the life-cycle specification
FewKeys == {KeyArg(K_title, Dash, FALSE)}

FewFilters == {<<F_BBC, F_Kids>>}

FilterBy(keys, patterns) ==
    \E k \in keys, filters \in patterns, retrieve \in BOOLEAN :
        filter_by(k.key, filters, k.key_splitter, retrieve, k.nested_key)

SortBy(keys) ==
    \E k \in keys, asc \in BOOLEAN :
        sort_by(k.key, k.key_splitter, asc, k.nested_key)

GetRandomStream ==
    \E random_shuffle \in BOOLEAN :
        /\ random_shuffle => Len(streams_info) <= MaxShuffle
        /\ \E shuffled \in (IF random_shuffle THEN Shuffles(streams_info)
                                              ELSE {streams_info}),
              pick \in (IF streams_info = <<>> THEN {0} ELSE 1..Len(streams_info)) :
                get_random_stream(random_shuffle, shuffled, pick)

ResetOperations == reset_operations

ParseM3u ==
    \E path \in Paths, live \in BOOLEAN, read \in Reads : parse_m3u(path, live, read)

ProbeResponse ==
    \E k \in 1..Len(tasks), response \in Responses : probe_response(k, response)

\* The first parse_m3u of a new parser, without the liveness check
ParseFresh ==
    /\ parses = 0
    /\ \E path \in Paths, read \in Reads : parse_m3u(path, FALSE, read)

ToFile ==
    \E filename \in {FileOut, FileOutM3u} : to_file(filename, S_m3u)

\* parse_m3u on a file
ParseFile ==
    \E live \in BOOLEAN, read \in Reads : parse_m3u(PathFile, live, read)

\* parse_m3u on a URL, up to the fetch
FetchStart ==
    \E live \in BOOLEAN, server \in {"answers", "silent"} :
        fetch_start(PathUrl, live, server)

\* The answer to the fetch
FetchResponse ==
    \E read \in Reads : fetch_response(PathUrl, read)

\* The timeout of the probe client ends a probe that waits
ProbeTimeout ==
    \E k \in 1..Len(tasks) : probe_response(k, "timeout")

\* The first parse_m3u of a new parser, on any document
ParseDocument ==
    /\ parses = 0
    /\ \E live \in BOOLEAN, read \in DocumentReads : parse_m3u(PathFile, live, read)

(***************************************************************************)
(* Specifications                                                          *)
(***************************************************************************)

\* The life cycle of a parser: parses, probes, and a few query calls
Next ==
    \/ ParseM3u
    \/ ProbeResponse
    \/ FilterBy(FewKeys, FewFilters)
    \/ SortBy(FewKeys)
    \/ GetRandomStream
    \/ ResetOperations

Spec == Init /\ [][Next]_vars

\* One parse, then every query call
QueryNext ==
    \/ ParseFresh
    \/ FilterBy(QueryKeys, QueryFilters)
    \/ SortBy(QueryKeys)
    \/ GetRandomStream
    \/ ResetOperations

QuerySpec == Init /\ [][QueryNext]_vars

\* One parse of any document, with its probes, and the writing of the
\* playlist
EntryNext ==
    \/ ParseDocument
    \/ ProbeResponse
    \/ ToFile

EntrySpec == Init /\ [][EntryNext]_vars

\* Parses from files and from URLs, the fetch of a URL being a step of its
\* own, with their probes. A server that answers the fetch does so in the
\* end. The probe client is built with the timeout (parse_lines), so a
\* probe that waits ends with a timeout at the latest; read_url's client
\* has none, and nothing ends the fetch that a silent server leaves waiting.
LiveNext ==
    \/ ParseFile
    \/ FetchStart
    \/ FetchResponse
    \/ ProbeResponse

LiveSpec ==
    Init /\ [][LiveNext]_vars /\ WF_vars(FetchResponse) /\ WF_vars(ProbeTimeout)

(***************************************************************************)
(* Properties                                                              *)
(***************************************************************************)

\* parse_m3u has returned from an extraction and nothing was called since
Extracted == last_call.op = "parse_m3u" /\ last_call.outcome = "extracted"

\* The tasks of the last batch that returned a record
Emitting(batch) == {k \in 1..Len(batch) : batch[k].info.some}

\* The lines of the document that contain #EXTINF
MetadataLines == {n \in 1..Len(lines) : contains(lines[n], S_EXTINF)}

\* A line that is a generic URL: a valid URL that is no acestream link
IsGenericUrl(line) == is_valid_url(line) /\ ~streams_regex_is_match(line)

\* C1: after parse_m3u, whatever the order in which the probes returned,
\* the records of streams_info are those of the entries that gave one, in
\* the order of their #EXTINF lines in the document: the i-th record is
\* the one of the i-th such line, and carries that line's title.
C1_DocumentOrder ==
    Extracted =>
        LET batch == last_call.batch
            some  == Emitting(batch)
        IN  /\ Len(streams_info) = Cardinality(some)
            /\ \A k \in some :
                  LET i == Cardinality({j \in some : batch[j].line_num <= batch[k].line_num})
                  IN  /\ streams_info[i] = batch[k].info.val
                      /\ streams_info[i].title =
                            unwrap_or_default(
                                get_by_regex(title_regex, lines[batch[k].line_num]))

\* C1 witness: a parse in which the probe of a later entry returned before
\* the probe of an earlier one, both entries giving a record.
C1_Witness ==
    /\ Extracted
    /\ \E k, j \in Emitting(last_call.batch) :
          /\ k < j
          /\ last_call.batch[k].requests = 1
          /\ last_call.batch[j].requests = 1
          /\ last_call.batch[k].finished > last_call.batch[j].finished

\* The records an extraction of the current lines produces, their status
\* left out (a probe may have raised it)
WithoutStatus(infos) == [i \in 1..Len(infos) |-> [infos[i] EXCEPT !.status = <<>>]]

\* C2: reset_operations leaves in streams_info the records the extraction
\* of the current document produced, in order, and no query operation
\* changes the backup.
C2_ResetRestoresExtraction ==
    [][/\ (last_call'.op = "reset_operations" /\ lines' # <<>>)
            => WithoutStatus(streams_info')
                  = WithoutStatus(results(first_poll(lines', FALSE)))
       /\ last_call'.op \in {"filter_by", "sort_by", "get_random_stream",
                              "reset_operations"}
            => streams_info_backup' = streams_info_backup]_vars

\* A line parse_line takes as the reference of an entry
IsReference(line) ==
    line # <<>> /\ (streams_regex_is_match(line) \/ is_valid_url(line)
                       \/ file_regex_is_match(line))

\* The #EXTINF lines with a reference among their next two lines, within
\* the document
WithReference ==
    {n \in MetadataLines :
        \/ n + 1 <= Len(lines) /\ IsReference(lines[n + 1])
        \/ n + 2 <= Len(lines) /\ IsReference(lines[n + 2])}

\* C3: no extraction indexes past the end of the lines: parse_m3u never
\* panics, and after it every entry with a reference in bounds has its
\* record while an entry without one has none.
C3_ExtractionStaysInBounds ==
    /\ pc # "panicked"
    /\ Extracted => Len(streams_info) = Cardinality(WithReference)

\* C4: after a parse_m3u that ran its extraction, streams_info holds at
\* most as many records as the document has #EXTINF lines, and every
\* record's url is non-empty.
C4_CountAndMediaRef ==
    Extracted =>
        /\ Len(streams_info) <= Cardinality(MetadataLines)
        /\ \A i \in 1..Len(streams_info) : streams_info[i].url # <<>>

\* C4 witness: a parse that gave records, and fewer than #EXTINF lines
C4_Witness ==
    /\ Extracted
    /\ Len(streams_info) >= 1
    /\ Len(streams_info) < Cardinality(MetadataLines)

\* The two parts of the key of a filter_by or sort_by call
KeyParts(call) ==
    IF call.nested_key THEN split(call.key, call.key_splitter)
    ELSE <<call.key, <<>>>>

\* The (field, subfield) pairs that name a field of a record
FieldPairs ==
    {<<K_title, <<>>>>, <<K_logo, <<>>>>, <<K_url, <<>>>>, <<K_category, <<>>>>,
     <<K_status, <<>>>>,
     <<K_tvg, K_id>>, <<K_tvg, K_name>>, <<K_tvg, K_url>>,
     <<K_country, K_code>>, <<K_country, K_name>>,
     <<K_language, K_code>>, <<K_language, K_name>>}

\* The value of the field of a record that a pair of FieldPairs names
FieldValue(info, pair) ==
    CASE pair = <<K_title, <<>>>>       -> info.title
      [] pair = <<K_logo, <<>>>>        -> info.logo
      [] pair = <<K_url, <<>>>>         -> info.url
      [] pair = <<K_category, <<>>>>    -> info.category
      [] pair = <<K_status, <<>>>>      -> info.status
      [] pair = <<K_tvg, K_id>>         -> info.tvg.id
      [] pair = <<K_tvg, K_name>>       -> info.tvg.name
      [] pair = <<K_tvg, K_url>>        -> info.tvg.url
      [] pair = <<K_country, K_code>>   -> info.country.code
      [] pair = <<K_country, K_name>>   -> info.country.name
      [] pair = <<K_language, K_code>>  -> info.language.code
      [] pair = <<K_language, K_name>>  -> info.language.name

\* Some pattern of the list occurs in the value
MatchesAny(value, filters) ==
    \E f \in 1..Len(filters) : contains(value, filters[f])

\* The records of infos whose field matches some pattern (retrieve) or no
\* pattern, in their order in infos
Selected(infos, pair, filters, retrieve) ==
    LET Keep(info) == MatchesAny(FieldValue(info, pair), filters) <=> retrieve
    IN  SelectSeq(infos, Keep)

\* A call whose key names a field of a record
NamesField(call) ==
    Len(KeyParts(call)) = 2 /\ <<KeyParts(call)[1], KeyParts(call)[2]>> \in FieldPairs

\* C5: a filter_by call with a key that names a field and a non-empty
\* pattern list leaves exactly the records whose value of that field
\* matches some pattern (retrieve) or no pattern (not retrieve), in their
\* prior order.
C5_FilterAnyOrNone ==
    [][(/\ last_call'.op = "filter_by"
        /\ NamesField(last_call')
        /\ last_call'.filters # <<>>)
          => streams_info' =
                Selected(streams_info,
                         <<KeyParts(last_call')[1], KeyParts(last_call')[2]>>,
                         last_call'.filters, last_call'.retrieve)]_vars

\* The usage errors of a filter_by or sort_by call
UsageError(call) ==
    \/ Len(KeyParts(call)) # 2
    \/ /\ Len(KeyParts(call)) = 2
       /\ \/ KeyParts(call)[1] \notin valid_keys_0
          \/ KeyParts(call)[2] \notin valid_keys_1
    \/ call.op = "filter_by" /\ call.filters = <<>>

Mismatched(call) ==
    /\ Len(KeyParts(call)) = 2
    /\ KeyParts(call)[1] \in valid_keys_0
    /\ KeyParts(call)[2] \in valid_keys_1
    /\ <<KeyParts(call)[1], KeyParts(call)[2]>> \notin FieldPairs

\* C7: a filter_by or sort_by call whose (field, subfield) pair names no
\* field of a record leaves streams_info unchanged.
C7_MismatchedKeyAborts ==
    [][(last_call'.op \in {"filter_by", "sort_by"} /\ Mismatched(last_call'))
          => streams_info' = streams_info]_vars

\* infos in the stable order of sort_by on a field: a rearrangement of
\* before whose values do not decrease (asc) or increase (not asc) and
\* that keeps records of equal value in their order in before
IsStableSort(before, after, pair, asc) ==
    /\ Len(after) = Len(before)
    /\ \E p \in [1..Len(before) -> 1..Len(before)] :
          /\ \A i \in 1..Len(before) : after[i] = before[p[i]]
          /\ \A i, j \in 1..Len(before) :
                i < j =>
                    LET order == cmp(FieldValue(after[i], pair),
                                     FieldValue(after[j], pair))
                    IN  /\ p[i] # p[j]
                        /\ order # (IF asc THEN "Greater" ELSE "Less")
                        /\ order = "Equal" => p[i] < p[j]

\* A call on the key language-code or language-name
OnLanguage(call) ==
    NamesField(call) /\ KeyParts(call)[1] = K_language

\* C8: filter_by and sort_by on language.code or language.name go by the
\* record's language.code or language.name: filter_by keeps the records
\* by their language value and sort_by orders them by it.
C8_LanguageKeys ==
    [][/\ (/\ last_call'.op = "filter_by"
           /\ OnLanguage(last_call')
           /\ last_call'.filters # <<>>)
             => streams_info' =
                   Selected(streams_info, <<K_language, KeyParts(last_call')[2]>>,
                            last_call'.filters, last_call'.retrieve)
       /\ (last_call'.op = "sort_by" /\ OnLanguage(last_call'))
             => IsStableSort(streams_info, streams_info',
                             <<K_language, KeyParts(last_call')[2]>>,
                             last_call'.asc)]_vars

\* C9: a sort_by call with a key that names a field replaces streams_info
\* by a rearrangement of itself in the order of that field's value, not
\* decreasing when asc and not increasing otherwise, records of equal
\* value keeping their prior order.
C9_StableSort ==
    [][(last_call'.op = "sort_by" /\ NamesField(last_call'))
          => IsStableSort(streams_info, streams_info',
                          <<KeyParts(last_call')[1], KeyParts(last_call')[2]>>,
                          last_call'.asc)]_vars

\* C10: a parse_m3u with check_live = false never waits for a probe, its
\* entries send no probe request, and every record whose url is a generic
\* URL has the status BAD after it.
C10_NoProbeWithoutCheckLive ==
    /\ ~check_live => pc # "probing"
    /\ (Extracted /\ ~last_call.check_live) =>
          /\ \A k \in 1..Len(last_call.batch) : last_call.batch[k].requests = 0
          /\ \A i \in 1..Len(streams_info) :
                IsGenericUrl(streams_info[i].url) => streams_info[i].status = BAD

\* C10 witness: a parse_m3u with check_live = false that gave a record
\* with a generic URL
C10_Witness ==
    /\ Extracted
    /\ ~last_call.check_live
    /\ \E i \in 1..Len(streams_info) : IsGenericUrl(streams_info[i].url)

\* The line an entry takes its reference from: the first of the lines at
\* +1 and +2 of its #EXTINF line that is a reference, 0 if neither is
FirstReference(n) ==
    IF n + 1 <= Len(lines) /\ IsReference(lines[n + 1]) THEN n + 1
    ELSE IF n + 2 <= Len(lines) /\ IsReference(lines[n + 2]) THEN n + 2
    ELSE 0

\* C11: after an extraction every entry has a record exactly when one of
\* its two next lines is an acestream link, a valid URL or a file path, and
\* the record's url is the first such line; an acestream link there gives
\* the status GOOD and, without probing, a generic URL gives BAD, whatever
\* the other line is.
C11_FirstMatchWins ==
    Extracted =>
        \A k \in 1..Len(last_call.batch) :
            LET task  == last_call.batch[k]
                first == FirstReference(task.line_num)
            IN  /\ task.info.some <=> first # 0
                /\ task.info.some =>
                      /\ task.info.val.url = lines[first]
                      /\ streams_regex_is_match(lines[first])
                            => task.info.val.status = GOOD
                      /\ (IsGenericUrl(lines[first]) /\ ~last_call.check_live)
                            => task.info.val.status = BAD

\* C11 witness: an entry whose two next lines are both references, of
\* different kinds, has its record
C11_Witness ==
    /\ Extracted
    /\ \E k \in Emitting(last_call.batch) :
          LET n == last_call.batch[k].line_num
          IN  /\ n + 2 <= Len(lines)
              /\ streams_regex_is_match(lines[n + 1])
              /\ IsGenericUrl(lines[n + 2])

\* The extraction of a text by a parse_m3u without the liveness check;
\* panic says that it panicked
Extraction(content) ==
    LET ts == first_poll(normalize(content), FALSE)
    IN  [panic |-> \E k \in 1..Len(ts) : ts[k].panic,
         infos |-> results(ts)]

\* The fields of the records that a playlist text carries
Written(infos) ==
    [i \in 1..Len(infos) |->
        [title    |-> infos[i].title,
         category |-> infos[i].category,
         tvg      |-> infos[i].tvg,
         logo     |-> infos[i].logo,
         country  |-> infos[i].country.code,
         language |-> infos[i].language.name,
         url      |-> infos[i].url]]

\* C12: the text to_file saves for the records of an extraction, when
\* extracted again, gives as many records, in the same order, with the
\* same title, category, tvg fields, logo, country code, language name and
\* url.
C12_RoundTrip ==
    (last_call.op = "to_file" /\ last_call.saved.some) =>
        /\ ~Extraction(last_call.saved.val).panic
        /\ Written(Extraction(last_call.saved.val).infos) = Written(streams_info)

\* after holds the elements of before, each as often, in some order
IsPermutation(before, after) ==
    /\ Len(after) = Len(before)
    /\ \E p \in [1..Len(before) -> 1..Len(before)] :
          /\ \A i, j \in 1..Len(before) : p[i] = p[j] => i = j
          /\ \A i \in 1..Len(before) : after[i] = before[p[i]]

\* C13: get_random_stream returns (the parser stays usable); it returns
\* None exactly when streams_info is empty and otherwise a record of
\* streams_info; with random_shuffle streams_info becomes a permutation of
\* itself and without it streams_info is unchanged.
C13_RandomStream ==
    [][last_call'.op = "get_random_stream" =>
          /\ pc' = "idle"
          /\ last_call'.ret.some <=> streams_info # <<>>
          /\ last_call'.ret.some =>
                /\ \E i \in 1..Len(streams_info) : streams_info[i] = last_call'.ret.val
                /\ \E i \in 1..Len(streams_info') : streams_info'[i] = last_call'.ret.val
          /\ IF last_call'.random_shuffle
             THEN IsPermutation(streams_info, streams_info')
             ELSE streams_info' = streams_info]_vars

\* C13 witness: get_random_stream has shuffled two records and returned
\* one, the order being another than the backup's
C13_Witness ==
    /\ last_call.op = "get_random_stream"
    /\ last_call.random_shuffle
    /\ last_call.ret.some
    /\ Len(streams_info) = 2
    /\ streams_info # streams_info_backup

\* C13 witness of the empty case: get_random_stream has returned None
C13_WitnessNone ==
    /\ last_call.op = "get_random_stream"
    /\ ~last_call.ret.some
    /\ streams_info = <<>>

\* The outcomes of parse_m3u that are input errors
InputErrors == {"fetch_error", "read_error", "no_content"}

\* C14: a parse_m3u that ends with an input error (the fetch fails, the
\* file cannot be read, no line is left after the normalisation) returns
\* without an extraction: it makes no task and leaves streams_info and
\* streams_info_backup as they were.
C14_InputErrorKeepsRecords ==
    [][(/\ last_call'.op = "parse_m3u"
        /\ last_call'.outcome \in InputErrors)
          => /\ streams_info' = streams_info
             /\ streams_info_backup' = streams_info_backup
             /\ tasks' = <<>>
             /\ parses' = parses
             /\ pc' = "idle"]_vars

\* C14 witness: a parse_m3u has ended with a failed fetch on a parser that
\* holds records
C14_Witness ==
    /\ last_call.op = "parse_m3u"
    /\ last_call.outcome = "fetch_error"
    /\ streams_info # <<>>
    /\ streams_info_backup # <<>>

\* The tasks of the running batch, or of the batch the last parse_m3u ended
\* with
Batch ==
    IF pc = "probing" THEN tasks
    ELSE IF Extracted THEN last_call.batch
    ELSE <<>>

\* The number of probe requests an entry is due with check_live: one for a
\* record whose link is a generic URL (status BAD from the scan), none for
\* a record with another link (status GOOD from the scan) and none
\* without a record
ProbesDue(task) ==
    IF task.info.some /\ IsGenericUrl(task.info.val.url) THEN 1 ELSE 0

\* The ends of a probe that are no success
Failures == {"non_success", "error", "timeout"}

\* C15: with check_live every entry sends exactly the probe requests it is
\* due, one for a record that the scan left BAD and none for one it left
\* GOOD, also after a probe that failed; and no step of a batch turns a
\* record's status from GOOD to BAD.
C15_OneProbePerBadRecord ==
    /\ [](check_live =>
             \A k \in 1..Len(Batch) : Batch[k].requests = ProbesDue(Batch[k]))
    /\ [][pc = "probing" =>
             \A k \in 1..Len(tasks) :
                 (tasks[k].info.some /\ tasks[k].info.val.status = GOOD)
                    => /\ Batch'[k].info.some
                       /\ Batch'[k].info.val.status = GOOD]_vars

\* C15 witness: a batch with check_live has ended in which a probe failed
\* and an entry with an acestream link sent none
C15_Witness ==
    /\ Extracted
    /\ last_call.check_live
    /\ \E k, j \in Emitting(last_call.batch) :
          /\ last_call.batch[k].response \in Failures
          /\ last_call.batch[k].requests = 1
          /\ last_call.batch[j].info.val.status = GOOD
          /\ last_call.batch[j].requests = 0

\* C16: with check_live a probe that ends in a transport error, a timeout
\* or a non-success status leaves its entry's record in the batch with the
\* status BAD; a task stops waiting only by the end of its own probe; and
\* at the end of the batch every probe sent has ended and every entry with
\* a reference has its record in streams_info.
C16_ProbeFailureIsolated ==
    /\ [](\A k \in 1..Len(Batch) :
             Batch[k].response \in Failures
                => /\ Batch[k].info.some
                   /\ Batch[k].info.val.status = BAD)
    /\ []((Extracted /\ last_call.check_live) =>
             /\ \A k \in 1..Len(last_call.batch) :
                   last_call.batch[k].requests > 0
                      => last_call.batch[k].response # "none"
             /\ Len(streams_info) = Cardinality(WithReference)
             /\ \A k \in Emitting(last_call.batch) :
                   \E i \in 1..Len(streams_info) :
                       streams_info[i] = last_call.batch[k].info.val)
    /\ [][pc = "probing" =>
             \A k \in 1..Len(tasks) :
                 (tasks[k].awaiting /\ ~Batch'[k].awaiting)
                    => Batch'[k].response # "none"]_vars

\* C16 witness: a batch with check_live has ended in which one probe
\* failed and the probe of another entry succeeded after it
C16_Witness ==
    /\ Extracted
    /\ last_call.check_live
    /\ \E k, j \in Emitting(last_call.batch) :
          /\ last_call.batch[k].response \in {"error", "timeout"}
          /\ last_call.batch[j].response = "success"
          /\ last_call.batch[k].finished < last_call.batch[j].finished
          /\ last_call.batch[j].info.val.status = GOOD

\* C18: a parse_m3u that waits, for the fetch of the playlist or for its
\* probes, returns in the end, also when a server never answers.
C18_SuspensionsEnd ==
    (pc \in {"fetching", "probing"}) ~> (pc \notin {"fetching", "probing"})

\* C19: after every parse_m3u that ran its extraction, a later one on the
\* same parser included, streams_info_backup equals streams_info.
C19_BackupIsLastExtraction ==
    Extracted => streams_info_backup = streams_info

\* The line a record's url was taken from: the first line behind its
\* #EXTINF line that holds the url
RefLine(task) ==
    Min({m \in (task.line_num + 1)..Len(lines) : lines[m] = task.info.val.url})

\* C20 as stated: in one extraction no line is the reference of two
\* entries: the records of two #EXTINF lines come from two different
\* lines.
C20_OneRecordPerLine ==
    Extracted =>
        \A k, j \in Emitting(last_call.batch) :
            k # j => RefLine(last_call.batch[k]) # RefLine(last_call.batch[j])

\* C20 as amended: two entries take the same line as their reference only
\* when their #EXTINF lines are consecutive, the line being at +2 of the
\* first and at +1 of the second; so no line is the reference of more than
\* two entries.
C20_SharedOnlyByNeighbours ==
    Extracted =>
        \A k, j \in Emitting(last_call.batch) :
            (/\ last_call.batch[k].line_num < last_call.batch[j].line_num
             /\ RefLine(last_call.batch[k]) = RefLine(last_call.batch[j]))
                => /\ last_call.batch[j].line_num = last_call.batch[k].line_num + 1
                   /\ RefLine(last_call.batch[k]) = last_call.batch[k].line_num + 2

\* C20 witness: two entries of an extraction have taken the same line
C20_Witness ==
    /\ Extracted
    /\ \E k, j \in Emitting(last_call.batch) :
          /\ k # j
          /\ RefLine(last_call.batch[k]) = RefLine(last_call.batch[j])

\* C17: a record that no probe has touched has the status GOOD exactly
\* when its url is an acestream link or matches the pattern of a local
\* file path.
C17_GoodIffStreamOrFile ==
    (Extracted /\ ~last_call.check_live) =>
        \A i \in 1..Len(streams_info) :
            streams_info[i].status = GOOD
                <=> \/ streams_regex_is_match(streams_info[i].url)
                    \/ file_regex_is_match(streams_info[i].url)

====
